---- MODULE Spec2Model ----
(***************************************************************************)
(* A model of the mpesa-go client (client/client.go, utils, types).        *)
(*                                                                         *)
(* The client holds a base URL, a shared header map guarded by a           *)
(* sync.RWMutex, and an HTTP transport.  Every bearer-token operation      *)
(* follows one shape: CheckKeys -> inject fields -> setHeaders(token) ->   *)
(* delete AccessToken -> json.Marshal -> NewRequest -> RLock, copy the     *)
(* shared headers onto the request, RUnlock -> client.Do -> json decode.   *)
(* Calls run concurrently in NumCalls goroutines; a call is split into     *)
(* steps at every access of shared state (the lock, the header map).       *)
(***************************************************************************)
EXTENDS Integers, Sequences, FiniteSets, TLC

\* ------------------------------------------------------------------ bounds
NumCalls == 2        \* goroutines, each running one call on the one client
MaxKeys == 3         \* length of a list of required keys handed to CheckKeys alone
MaxClock == 1        \* seconds the wall clock may advance during a run

Calls == 1 .. NumCalls

\* ------------------------------------------------------- Go values and maps
\* An interface{} value: its dynamic type and its printed value.
Str(s) == [t |-> "string", v |-> s]
Num(s) == [t |-> "number", v |-> s]
Chan == [t |-> "chan", v |-> ""]

\* map[string]X{}: a function with a finite set of string keys.
EmptyMap == [k \in {} |-> Str("")]
Put(m, k, x) == [j \in DOMAIN m \cup {k} |-> IF j = k THEN x ELSE m[j]]
Delete(m, k) == [j \in DOMAIN m \ {k} |-> m[j]]
Range(s) == {s[i] : i \in 1 .. Len(s)}

\* v, _ := x.(string): the string, or "" when x holds another type.
AssertString(x) == IF x.t = "string" THEN x.v ELSE ""

\* ------------------------------------------------------------ the operations
BearerOps ==
  {"STKPush", "RegisterURL", "SimulateTransaction", "ReverseTransaction",
   "QueryTransaction", "GetBalance", "B2CSend", "B2BSend", "RegisterPullAPI",
   "PullTransactions"}

\* The push-payment status query is declared in types/types.go
\* (STKPushQueryRequest, STKPushQueryResponse); client.go holds no method for
\* it, so its method, path and keys follow the interface table of the
\* specification.
QueryOps == {"STKPushQuery"}

TokenOps == BearerOps \cup QueryOps

\* requiredKeys of each operation, in declaration order.
RequiredKeys(op) ==
  CASE op = "STKPush" ->
         <<"AccessToken", "BusinessShortCode", "Password", "Amount", "PartyA",
           "PartyB", "PhoneNumber", "CallBackURL", "AccountReference",
           "TransactionDesc">>
    [] op = "RegisterURL" ->
         <<"AccessToken", "ShortCode", "ResponseType", "ConfirmationURL",
           "ValidationURL">>
    [] op = "SimulateTransaction" ->
         <<"AccessToken", "ShortCode", "Amount", "Msisdn", "BillRefNumber">>
    [] op = "ReverseTransaction" ->
         <<"AccessToken", "Initiator", "SecurityCredential", "TransactionID",
           "Amount", "ReceiverParty", "ResultURL", "QueueTimeOutURL", "Remarks",
           "Occasion">>
    [] op = "QueryTransaction" ->
         <<"AccessToken", "Initiator", "SecurityCredential", "TransactionID",
           "PartyA", "ResultURL", "QueueTimeOutURL", "Remarks", "Occasion">>
    [] op = "GetBalance" ->
         <<"AccessToken", "Initiator", "SecurityCredential", "PartyA",
           "Remarks", "QueueTimeOutURL", "ResultURL">>
    [] op = "B2CSend" ->
         <<"AccessToken", "InitiatorName", "SecurityCredential", "Amount",
           "PartyA", "PartyB", "Remarks", "QueueTimeOutURL", "ResultURL",
           "Occasion">>
    [] op = "B2BSend" ->
         <<"AccessToken", "Initiator", "SecurityCredential", "CommandID",
           "SenderIdentifierType", "RecieverIdentifierType", "Amount", "PartyA",
           "PartyB", "Remarks", "AccountReference", "Requester",
           "QueueTimeOutURL", "ResultURL">>
    [] op = "RegisterPullAPI" ->
         <<"AccessToken", "ShortCode", "NominatedNumber", "CallBackURL">>
    [] op = "PullTransactions" ->
         <<"AccessToken", "ShortCode", "StartDate", "EndDate", "OffSetValue">>
    [] OTHER -> <<>>

\* The fields of STKPushQueryRequest, in declaration order.
QueryKeys(op) ==
  <<"AccessToken", "BusinessShortCode", "Password", "Timestamp", "CheckoutRequestID">>

OpKeys(op) == IF op \in QueryOps THEN QueryKeys(op) ELSE RequiredKeys(op)

\* Faulty variant of Path: the first version of the C2B registration endpoint.
PathV1(op) ==
  CASE op = "GetAccessToken" -> "/oauth/v1/generate?grant_type=client_credentials"
    [] op = "STKPush" -> "/mpesa/stkpush/v1/processrequest"
    [] op = "RegisterURL" -> "/mpesa/c2b/v1/registerurl"
    [] op = "SimulateTransaction" -> "/mpesa/c2b/v1/simulate"
    [] op = "ReverseTransaction" -> "/mpesa/reversal/v1/request"
    [] op = "QueryTransaction" -> "/mpesa/transactionstatus/v1/query"
    [] op = "GetBalance" -> "/mpesa/accountbalance/v1/query"
    [] op = "B2CSend" -> "/mpesa/b2c/v1/paymentrequest"
    [] op = "B2BSend" -> "/mpesa/b2b/v1/paymentrequest"
    [] op = "RegisterPullAPI" -> "/pulltransactions/v1/register"
    [] op = "PullTransactions" -> "/pulltransactions/v1/query"
    [] OTHER -> ""

\* The endpoint path appended to m.baseURL.
Path(op) ==
  CASE op = "GetAccessToken" -> "/oauth/v1/generate?grant_type=client_credentials"
    [] op = "STKPush" -> "/mpesa/stkpush/v1/processrequest"
    [] op = "RegisterURL" -> "/mpesa/c2b/v2/registerurl"
    [] op = "SimulateTransaction" -> "/mpesa/c2b/v1/simulate"
    [] op = "ReverseTransaction" -> "/mpesa/reversal/v1/request"
    [] op = "QueryTransaction" -> "/mpesa/transactionstatus/v1/query"
    [] op = "GetBalance" -> "/mpesa/accountbalance/v1/query"
    [] op = "B2CSend" -> "/mpesa/b2c/v1/paymentrequest"
    [] op = "B2BSend" -> "/mpesa/b2b/v1/paymentrequest"
    [] op = "RegisterPullAPI" -> "/pulltransactions/v1/register"
    [] op = "PullTransactions" -> "/pulltransactions/v1/query"
    [] OTHER -> ""

\* The HTTP method handed to http.NewRequestWithContext.
Method(op) == IF op = "GetAccessToken" THEN "GET" ELSE "POST"

QueryPath(op) == "/mpesa/stkpushquery/v1/query"
QueryMethod(op) == "POST"

OpPath(op) == IF op \in QueryOps THEN QueryPath(op) ELSE Path(op)
OpMethod(op) == IF op \in QueryOps THEN QueryMethod(op) ELSE Method(op)

\* ------------------------------------------------------------------ utils
\* The loop of CheckKeys from position i on: copy each required key that the
\* payload holds, stop at the first one it lacks.
RECURSIVE CheckKeysLoop(_, _, _, _)
CheckKeysLoop(requiredKeys, i, payload, cleanedPayload) ==
  IF i > Len(requiredKeys)
    THEN [ok |-> TRUE, map |-> cleanedPayload, err |-> ""]
    ELSE IF requiredKeys[i] \in DOMAIN payload
      THEN CheckKeysLoop(requiredKeys, i + 1, payload,
                         Put(cleanedPayload, requiredKeys[i], payload[requiredKeys[i]]))
      ELSE [ok |-> FALSE, map |-> EmptyMap, err |-> "missing key: " \o requiredKeys[i]]

\* Faulty variants of CheckKeys: the copy without the presence test (an absent key
\* yields the nil value), and the payload handed back unfiltered.
Nil == [t |-> "nil", v |-> ""]
CheckKeysNoTest(requiredKeys, payload) ==
  [ok |-> TRUE,
   map |-> [k \in Range(requiredKeys) |-> IF k \in DOMAIN payload THEN payload[k] ELSE Nil],
   err |-> ""]
CheckKeysUnfiltered(requiredKeys, payload) ==
  LET r == CheckKeysLoop(requiredKeys, 1, payload, EmptyMap)
  IN [r EXCEPT !.map = IF r.ok THEN payload ELSE EmptyMap]

CheckKeys(requiredKeys, payload) == CheckKeysLoop(requiredKeys, 1, payload, EmptyMap)

\* time.Now().Format("20060102150405") for a clock that stands `now` seconds
\* after 2025-01-01 09:59:58 (so that the bounds cross a minute and an hour).
Digits == <<"0", "1", "2", "3", "4", "5", "6", "7", "8", "9">>
TwoDigits(n) == Digits[(n \div 10) + 1] \o Digits[(n % 10) + 1]
GetTimestamp(now) ==
  LET sec == (35998 + now) % 86400
  IN "20250101" \o TwoDigits(sec \div 3600) \o TwoDigits((sec % 3600) \div 60)
       \o TwoDigits(sec % 60)

\* The bytes of GetTimestamp's string (ASCII digits).
DigitBytes(n) == <<48 + (n \div 10), 48 + (n % 10)>>
TimestampBytes(now) ==
  LET sec == (35998 + now) % 86400
  IN <<50, 48, 50, 53, 48, 49, 48, 49>> \o DigitBytes(sec \div 3600)
       \o DigitBytes((sec % 3600) \div 60) \o DigitBytes(sec % 60)

\* base64.StdEncoding: every three bytes become four 6-bit digits; a last
\* group of one or two bytes is filled with zero bits and padded with '='.
\* The digits are numbered 0 .. 63, the padding is 64.
Pad == 64
RECURSIVE Base64Digits(_)
Base64Digits(bs) ==
  IF Len(bs) = 0 THEN <<>>
  ELSE IF Len(bs) = 1 THEN <<bs[1] \div 4, (bs[1] % 4) * 16, Pad, Pad>>
  ELSE IF Len(bs) = 2
    THEN <<bs[1] \div 4, (bs[1] % 4) * 16 + (bs[2] \div 16), (bs[2] % 16) * 4, Pad>>
  ELSE <<bs[1] \div 4, (bs[1] % 4) * 16 + (bs[2] \div 16),
         (bs[2] % 16) * 4 + (bs[3] \div 64), bs[3] % 64>>
         \o Base64Digits(SubSeq(bs, 4, Len(bs)))

Base64Alphabet ==
  <<"A", "B", "C", "D", "E", "F", "G", "H", "I", "J", "K", "L", "M", "N", "O", "P",
    "Q", "R", "S", "T", "U", "V", "W", "X", "Y", "Z", "a", "b", "c", "d", "e", "f",
    "g", "h", "i", "j", "k", "l", "m", "n", "o", "p", "q", "r", "s", "t", "u", "v",
    "w", "x", "y", "z", "0", "1", "2", "3", "4", "5", "6", "7", "8", "9", "+", "/",
    "=">>
RECURSIVE Base64Text(_)
Base64Text(ds) == IF ds = <<>> THEN "" ELSE Base64Alphabet[ds[1] + 1] \o Base64Text(Tail(ds))

\* []byte(s) of the strings handed to EncodePassword.
Text(s) ==
  CASE s = "123456" -> <<49, 50, 51, 52, 53, 54>>
    [] s = "passkey" -> <<112, 97, 115, 115, 107, 101, 121>>
    [] s = "pk" -> <<112, 107>>
    [] s = "\\xff" -> <<255>>
    [] OTHER -> <<>>
ShortCodes == {"123456"}
Passkeys == {"passkey", "pk", "\\xff", ""}

\* EncodeToString([]byte(data))
EncodeToString(bs) == Base64Text(Base64Digits(bs))

\* Faulty variant of EncodePassword: the passkey before the shortcode.
EncodePasswordKeyFirst(shortcode, passkey, now) ==
  EncodeToString(passkey \o shortcode \o TimestampBytes(now))

\* EncodePassword(shortcode, passkey) at a clock that stands at `now`.
EncodePassword(shortcode, passkey, now) ==
  EncodeToString(shortcode \o passkey \o TimestampBytes(now))

\* --------------------------------------------------------- derived payloads
\* Faulty variant of InjectBefore: the constants of the reversal and of the
\* status query exchanged.
InjectBeforeSwapped(op, m, ts) ==
  CASE op = "STKPush" ->
         Put(Put(m, "TransactionType", Str("CustomerPayBillOnline")), "Timestamp", Str(ts))
    [] op = "SimulateTransaction" -> Put(m, "CommandID", Str("CustomerPayBillOnline"))
    [] op = "ReverseTransaction" -> Put(m, "CommandID", Str("TransactionStatusQuery"))
    [] op = "QueryTransaction" ->
         Put(Put(m, "CommandID", Str("TransactionReversal")), "IdentifierType", Str("4"))
    [] op = "GetBalance" ->
         Put(Put(m, "CommandID", Str("AccountBalance")), "IdentifierType", Str("4"))
    [] op = "B2CSend" -> Put(m, "CommandID", Str("PromotionPayment"))
    [] OTHER -> m

\* The fields an operation sets on cleanedPayload before setHeaders.
InjectBefore(op, m, ts) ==
  CASE op = "STKPush" ->
         Put(Put(m, "TransactionType", Str("CustomerPayBillOnline")), "Timestamp", Str(ts))
    [] op = "SimulateTransaction" -> Put(m, "CommandID", Str("CustomerPayBillOnline"))
    [] op = "ReverseTransaction" -> Put(m, "CommandID", Str("TransactionReversal"))
    [] op = "QueryTransaction" ->
         Put(Put(m, "CommandID", Str("TransactionStatusQuery")), "IdentifierType", Str("4"))
    [] op = "GetBalance" ->
         Put(Put(m, "CommandID", Str("AccountBalance")), "IdentifierType", Str("4"))
    [] op = "B2CSend" -> Put(m, "CommandID", Str("PromotionPayment"))
    [] OTHER -> m

\* Faulty variant of WireBody: the token left in the body.
WireBodyKeepsToken(op, m) == IF op = "RegisterPullAPI" THEN Put(m, "RequestType", Str("Pull")) ELSE m

\* delete(cleanedPayload, "AccessToken"), and what RegisterPullAPI sets after it.
WireBody(op, m) ==
  IF op = "RegisterPullAPI"
    THEN Put(Delete(m, "AccessToken"), "RequestType", Str("Pull"))
    ELSE Delete(m, "AccessToken")

\* json.Marshal of a map fails on a value that has no JSON form (a channel).
MarshalFails(m) == \E k \in DOMAIN m : m[k].t = "chan"

\* The map literal of setHeaders.
NewHeaders(accessToken) ==
  [k \in {"Content-Type", "Authorization"} |->
     IF k = "Content-Type" THEN "application/json" ELSE "Bearer " \o accessToken]

\* --------------------------------------------------------------- responses
\* The JSON keys and types of each operation's response struct.
StringFields(ks) == [k \in ks |-> "string"]
ResponseFields(op) ==
  CASE op = "GetAccessToken" -> StringFields({"access_token", "expires_in"})
    [] op = "STKPush" ->
         StringFields({"MerchantRequestID", "ResponseCode", "CheckoutRequestID",
                       "ResponseDescription", "CustomerMessage"})
    [] op = "STKPushQuery" ->
         StringFields({"MerchantRequestID", "ResponseCode", "CheckoutRequestID",
                       "ResponseDescription", "ResultCode", "ResultDesc"})
    [] op = "RegisterURL" ->
         StringFields({"OriginatorCoversationID", "ResultCode", "ResponseDescription"})
    [] op = "SimulateTransaction" ->
         StringFields({"ConversationID", "OriginatorConversationID", "ResponseDescription"})
    [] op = "RegisterPullAPI" ->
         StringFields({"ResponseRefID", "ResponseStatus", "ShortCode", "ResponseDescription"})
    [] op = "PullTransactions" ->
         StringFields({"ResponseRefID", "ResponseCode", "ResponseMessage"})
           @@ [k \in {"Response"} |-> "array"]
    [] OTHER ->
         StringFields({"ConversationID", "OriginatorConversationID", "ResponseCode",
                       "ResponseDescription"})

\* The fields of types.Transaction, by JSON key.
TransactionFields ==
  StringFields({"transactionId", "trxDate", "sender", "transactiontype", "billreference",
                "amount", "organizationname"})
    @@ [k \in {"msisdn"} |-> "int64"]

\* The zero value of a struct field.
Zero(type) ==
  CASE type = "array" -> [t |-> type, v |-> <<>>]
    [] type = "int64" -> [t |-> type, v |-> "0"]
    [] OTHER -> [t |-> type, v |-> ""]

\* The JSON number literals of the responses that are integers within int64.
Int64Literals == {"0", "72200000", "254708374149"}

\* Whether a JSON value can be stored in a field of the given Go type.
AcceptsScalar(x, type) ==
  CASE type = "string" -> x.t = "string"
    [] type = "int64" -> x.t = "number" /\ x.v \in Int64Literals
    [] OTHER -> FALSE
Accepts(x, type) ==
  IF type = "array"
    THEN /\ x.t = "array"
         /\ \A i \in 1 .. Len(x.v) :
              \A k \in DOMAIN x.v[i] \cap DOMAIN TransactionFields :
                AcceptsScalar(x.v[i][k], TransactionFields[k])
    ELSE AcceptsScalar(x, type)

\* A JSON scalar stored in a field: a number becomes the int64 it denotes.
DecodeScalar(x, type) == IF type = "int64" THEN [t |-> "int64", v |-> x.v] ELSE x

\* One JSON object decoded into a types.Transaction.
DecodeTransaction(obj) ==
  [k \in DOMAIN TransactionFields |->
     IF k \in DOMAIN obj THEN DecodeScalar(obj[k], TransactionFields[k])
                         ELSE Zero(TransactionFields[k])]

\* Faulty variant of DecodeElements: the elements stored last to first.
DecodeElementsReversed(xs) == [i \in 1 .. Len(xs) |-> DecodeTransaction(xs[Len(xs) + 1 - i])]

\* A JSON array decoded into []Transaction: one element per element, in order.
DecodeElements(xs) == [i \in 1 .. Len(xs) |-> DecodeTransaction(xs[i])]

DecodeValue(x, type) ==
  IF type = "array" THEN [t |-> "array", v |-> DecodeElements(x.v)] ELSE DecodeScalar(x, type)

\* A response body: well-formed JSON (an object, key -> value) or not.
JSONObject(obj) == [wf |-> TRUE, obj |-> obj]
MalformedBody == [wf |-> FALSE, obj |-> EmptyMap]

\* Faulty variant of Decode: the struct is left at its zero value.
DecodeNothing(body, fields) ==
  IF ~body.wf
    THEN [ok |-> FALSE, val |-> EmptyMap, err |-> "failed to decode response: invalid JSON"]
    ELSE [ok |-> TRUE, val |-> [k \in DOMAIN fields |-> Zero(fields[k])], err |-> ""]

\* json.NewDecoder(resp.Body).Decode(&response): keys the struct does not
\* declare are skipped, fields the body does not hold keep their zero value, a
\* value the field's type cannot store is an error, and so is a body that is
\* not JSON.
Decode(body, fields) ==
  IF ~body.wf
    THEN [ok |-> FALSE, val |-> EmptyMap, err |-> "failed to decode response: invalid JSON"]
    ELSE IF \E k \in DOMAIN body.obj \cap DOMAIN fields : ~Accepts(body.obj[k], fields[k])
      THEN [ok |-> FALSE, val |-> EmptyMap, err |-> "failed to decode response: wrong type"]
      ELSE [ok |-> TRUE,
            val |-> [k \in DOMAIN fields |->
                       IF k \in DOMAIN body.obj THEN DecodeValue(body.obj[k], fields[k])
                                                ELSE Zero(fields[k])],
            err |-> ""]

\* ------------------------------------------------------------------- state
VARIABLES
  baseURL,   \* m.baseURL
  heap,      \* the header maps ever allocated, by address (1 = the map of NewMpesa)
  headers,   \* m.headers: the address of the current header map
  mu,        \* m.mu: the goroutine holding the write lock (0 = none) and the read holders
  clock,     \* seconds elapsed on the wall clock
  calls,     \* per goroutine: the call it runs, its position and its locals
  runOp,     \* the bearer-token operation the callers of this run invoke
  fn         \* a utility function applied on its own: its name, inputs and output

vars == <<baseURL, heap, headers, mu, clock, calls, runOp, fn>>

ProductionURL == "https://api.safaricom.co.ke"
BaseURLs == {ProductionURL, "http://127.0.0.1:8080"}

\* An *http.Request that was not built yet.
NoReq ==
  [method |-> "", url |-> "", header |-> EmptyMap, body |-> EmptyMap,
   hasBody |-> FALSE, user |-> "", pass |-> ""]

\* http.NewRequestWithContext(ctx, method, url, body): no header set yet.
NewRequest(method, url, hasBody, body) ==
  [method |-> method, url |-> url, header |-> EmptyMap, body |-> body,
   hasBody |-> hasBody, user |-> "", pass |-> ""]

IdleCall ==
  [pc |-> "idle", op |-> "", payload |-> EmptyMap, cleaned |-> EmptyMap,
   token |-> "", wrote |-> 0, read |-> 0, req |-> NoReq, nsent |-> 0,
   status |-> 0, body |-> MalformedBody, hasRes |-> FALSE, res |-> EmptyMap,
   err |-> "", got |-> 0, gotMap |-> EmptyMap]

IdleFn == [name |-> "", keys |-> <<>>, payload |-> EmptyMap, applied |-> FALSE,
           ok |-> FALSE, map |-> EmptyMap, err |-> "",
           shortcode |-> "", passkey |-> "", outs |-> <<>>]

\* NewMpesa(), before any call.
InitClient ==
  /\ baseURL = ProductionURL
  /\ heap = <<EmptyMap>>
  /\ headers = 1
  /\ mu = [writer |-> 0, readers |-> {}]
  /\ clock = 0
  /\ calls = [c \in Calls |-> IdleCall]

Init == InitClient /\ runOp \in TokenOps /\ fn = IdleFn

\* Faulty variant of CanLock: a write lock that does not wait for the readers.
CanLockDespiteReaders(m) == m.writer = 0

\* sync.RWMutex: Lock waits for the writer and every reader to leave, RLock
\* for the writer.
CanLock(m) == m.writer = 0 /\ m.readers = {}
\* Faulty variant of CanRLock: a read lock that does not wait for the writer.
CanRLockAlways(m) == TRUE
CanRLock(m) == m.writer = 0

\* Faulty variants of StoreHeaders: the entries written into the map in place, and
\* the map set only while it is still empty.
StoreHeadersInPlace(h, ref, accessToken) ==
  [heap |-> [h EXCEPT ![ref] = NewHeaders(accessToken)], ref |-> ref]
StoreHeadersOnce(h, ref, accessToken) ==
  IF h[ref] = EmptyMap
    THEN [heap |-> Append(h, NewHeaders(accessToken)), ref |-> Len(h) + 1]
    ELSE [heap |-> h, ref |-> ref]

\* Faulty variant of StoreHeaders: the new entries merged under the old ones.
StoreHeadersMerged(h, ref, accessToken) ==
  [heap |-> Append(h, h[ref] @@ NewHeaders(accessToken)), ref |-> Len(h) + 1]

\* m.headers = map[string]string{...}: a new map replaces the old one.
StoreHeaders(h, ref, accessToken) ==
  [heap |-> Append(h, NewHeaders(accessToken)), ref |-> Len(h) + 1]

\* Faulty variant of Return: the response struct is handed back with the error.
ReturnResultAlways(call, hasRes, res, err) ==
  [call EXCEPT !.pc = "done", !.hasRes = TRUE, !.res = res, !.err = err]

\* return x, err at the end of a call.
Return(call, hasRes, res, err) ==
  [call EXCEPT !.pc = "done", !.hasRes = hasRes, !.res = res, !.err = err]

\* ------------------------------------------------------------ the payloads
TokenValues == {Str("tokA"), Str("tokB"), Str(""), Num("42")}
CallerKeys == {"CommandID", "IdentifierType", "TransactionType", "Timestamp",
               "RequestType", "Extra"}

Full(op, tok) ==
  [k \in Range(OpKeys(op)) |-> IF k = "AccessToken" THEN tok ELSE Str("x")]

\* The push payload of the README: the caller encodes the password with
\* utils.EncodePassword (here when the clock stands at 0) and hands it over.
ReadmePush ==
  [Full("STKPush", Str("tokB")) EXCEPT
     !["BusinessShortCode"] = Str("123456"),
     !["Password"] = Str(EncodePassword(Text("123456"), Text("passkey"), 0))]

\* The payloads a caller hands to an operation: complete ones with each kind
\* of token, one with every key a caller might add, one with a value that has
\* no JSON form, one for each single missing key, one with the token alone,
\* and for the push payment the one of the README.
Payloads(op) ==
  (IF op = "STKPush" THEN {ReadmePush} ELSE {}) \cup
  {Full(op, tok) : tok \in TokenValues \ {Str("tokA")}}
    \cup {Full(op, Str("tokA")) @@ [k \in CallerKeys |-> Str("caller")]}
    \cup {[Full(op, Str("tokB")) EXCEPT ![OpKeys(op)[2]] = Chan]}
    \cup {Delete(Full(op, Str("tokA")), k) : k \in Range(OpKeys(op))}
    \cup {[k \in {"AccessToken"} |-> Str("tokA")]}

\* -------------------------------------------------------------- the server
Statuses(op) == IF op = "GetAccessToken" THEN {200, 401} ELSE {200, 400}

\* What the provider may answer: the success shape of the operation, the
\* nested callback-error envelope of the push payment, the error body of the
\* token exchange, or something that is not JSON.
SuccessBody(op) ==
  JSONObject([k \in DOMAIN ResponseFields(op) |->
                IF ResponseFields(op)[k] = "array" THEN [t |-> "array", v |-> <<>>]
                                                   ELSE [t |-> "string", v |-> "0"]])

\* The answers of the mock server of the tests, and the token answer with
\* expires_in sent as a JSON number.
TokenBody(expiresIn) ==
  JSONObject([k \in {"access_token", "expires_in"} |->
                IF k = "access_token" THEN Str("test-token") ELSE expiresIn])
PushBody ==
  JSONObject([MerchantRequestID |-> Str("29115-34620561-1"),
              CheckoutRequestID |-> Str("ws_CO_191220191020363925"),
              ResponseCode |-> Str("0"),
              ResponseDescription |-> Str("Success"),
              CustomerMessage |-> Str("Accepted")])

\* Transaction records as the provider sends them.
Tx(id, date, msisdn, amount) ==
  [transactionId |-> Str(id), trxDate |-> Str(date), msisdn |-> msisdn,
   sender |-> Str("UAT2"), transactiontype |-> Str("c2b-pay-bill-debit"),
   billreference |-> Str("37207636392"), amount |-> amount,
   organizationname |-> Str("Daraja Pull API Test")]
Tx1 == Tx("yzlyrEsRG1", "2020-08-05T10:13:00Z", Num("72200000"), Str("168.00"))
Tx2 == Tx("yzlyrEsRG2", "2020-08-05T10:14:00Z", Num("254708374149"), Str("20.50"))
TxSparse == [k \in {"transactionId", "narration"} |-> Str("yzlyrEsRG3")]
TxAmountNumber == Tx("yzlyrEsRG4", "2020-08-05T10:15:00Z", Num("72200000"), Num("168.00"))
TxHugeMsisdn == Tx("yzlyrEsRG5", "2020-08-05T10:16:00Z", Num("9223372036854775808"), Str("1.00"))
PullBody(records) ==
  JSONObject([ResponseRefID |-> Str("26178-42530161-2"), ResponseCode |-> Str("1000"),
              ResponseMessage |-> Str("Success"),
              Response |-> [t |-> "array", v |-> records]])
SampleBodies(op) ==
  CASE op = "GetAccessToken" -> {TokenBody(Str("3600")), TokenBody(Num("3600"))}
    [] op = "STKPush" -> {PushBody}
    [] op = "PullTransactions" ->
         {PullBody(<<Tx1, Tx2>>), PullBody(<<Tx2, TxSparse>>),
          PullBody(<<Tx1, TxAmountNumber>>), PullBody(<<TxHugeMsisdn>>)}
    [] OTHER -> {}
STKResultCode == "1032"
STKResultDesc == "Request canceled by user."
STKErrorBody ==
  JSONObject([k \in {"Body"} |->
    [t |-> "object",
     v |-> "stkCallback.ResultCode=" \o STKResultCode \o ",ResultDesc=" \o STKResultDesc]])
AuthErrorBody == JSONObject([k \in {"error"} |-> Str("invalid credentials")])
ErrorBody(op) == IF op = "GetAccessToken" THEN AuthErrorBody ELSE STKErrorBody
Bodies(op) == {SuccessBody(op), ErrorBody(op), MalformedBody} \cup SampleBodies(op)

\* ------------------------------------------------------------- the actions
Set(c, call) == calls' = [calls EXCEPT ![c] = call]

\* time.Now(): the wall clock, which never runs backwards.
Now(op) == IF op = "STKPush" THEN clock .. MaxClock ELSE {clock}

\* Faulty variant of Start: the call goes on without calling setHeaders.
StartWithoutSetHeaders(c, op, payload) ==
  /\ calls[c].pc = "idle"
  /\ op = runOp
  /\ LET ck == CheckKeys(OpKeys(op), payload)
         begun == [calls[c] EXCEPT !.op = op, !.payload = payload]
         cleaned == InjectBefore(op, ck.map, GetTimestamp(clock))
     IN Set(c, IF ~ck.ok
                 THEN Return(begun, FALSE, EmptyMap, ck.err)
                 ELSE [begun EXCEPT !.pc = "marshal", !.cleaned = cleaned,
                                    !.token = AssertString(cleaned["AccessToken"])])
  /\ UNCHANGED <<baseURL, heap, headers, mu, clock, runOp, fn>>

\* Faulty variant of Start: setHeaders is called before the keys are checked.
StartSetsHeadersFirst(c, op, payload) ==
  /\ calls[c].pc = "idle"
  /\ op = runOp
  /\ LET begun == [calls[c] EXCEPT !.op = op, !.payload = payload]
         cleaned == InjectBefore(op, payload, GetTimestamp(clock))
     IN Set(c, [begun EXCEPT !.pc = "setLock", !.cleaned = cleaned,
                             !.token = IF "AccessToken" \in DOMAIN payload
                                         THEN AssertString(payload["AccessToken"]) ELSE ""])
  /\ UNCHANGED <<baseURL, heap, headers, mu, clock, runOp, fn>>

\* A bearer-token operation up to its call of setHeaders: CheckKeys, the
\* injected fields (STKPush reads the clock for its Timestamp), the type
\* assertion of the token.
Start(c, op, payload) ==
  /\ calls[c].pc = "idle"
  /\ op = runOp
  /\ \E now \in Now(op) :
       LET ck == CheckKeys(OpKeys(op), payload)
           begun == [calls[c] EXCEPT !.op = op, !.payload = payload]
           cleaned == InjectBefore(op, ck.map, GetTimestamp(now))
       IN /\ Set(c, IF ~ck.ok
                      THEN Return(begun, FALSE, EmptyMap, ck.err)
                      ELSE [begun EXCEPT !.pc = "setLock", !.cleaned = cleaned,
                                         !.token = AssertString(cleaned["AccessToken"])])
          /\ clock' = IF ck.ok THEN now ELSE clock
  /\ UNCHANGED <<baseURL, heap, headers, mu, runOp, fn>>

StartBearer(c) == \E op \in BearerOps : \E payload \in Payloads(op) : Start(c, op, payload)

\* The push-payment status query, shaped like every bearer-token operation.
StartQuery(c) == \E op \in QueryOps : \E payload \in Payloads(op) : Start(c, op, payload)

\* setHeaders: m.mu.Lock()
SetHeadersLock(c) ==
  /\ calls[c].pc = "setLock"
  /\ CanLock(mu)
  /\ mu' = [mu EXCEPT !.writer = c]
  /\ Set(c, [calls[c] EXCEPT !.pc = "setWrite"])
  /\ UNCHANGED <<baseURL, heap, headers, clock, runOp, fn>>

\* setHeaders: m.headers = map[string]string{...}
SetHeadersWrite(c) ==
  /\ calls[c].pc = "setWrite"
  /\ LET st == StoreHeaders(heap, headers, calls[c].token)
     IN /\ heap' = st.heap
        /\ headers' = st.ref
        /\ Set(c, [calls[c] EXCEPT !.pc = "setUnlock", !.wrote = st.ref])
  /\ UNCHANGED <<baseURL, mu, clock, runOp, fn>>

\* setHeaders: the deferred m.mu.Unlock()
SetHeadersUnlock(c) ==
  /\ calls[c].pc = "setUnlock"
  /\ mu' = [mu EXCEPT !.writer = 0]
  /\ Set(c, [calls[c] EXCEPT !.pc = "marshal"])
  /\ UNCHANGED <<baseURL, heap, headers, clock, runOp, fn>>

\* delete(cleanedPayload, "AccessToken"), json.Marshal, NewRequestWithContext.
Marshal(c) ==
  /\ calls[c].pc = "marshal"
  /\ LET call == calls[c]
         wire == WireBody(call.op, call.cleaned)
     IN Set(c, IF MarshalFails(wire)
                 THEN Return([call EXCEPT !.cleaned = wire], FALSE, EmptyMap,
                             "failed to marshal payload")
                 ELSE [call EXCEPT !.pc = "rlock", !.cleaned = EmptyMap,
                         !.req = NewRequest(OpMethod(call.op), baseURL \o OpPath(call.op),
                                            TRUE, wire)])
  /\ UNCHANGED <<baseURL, heap, headers, mu, clock, runOp, fn>>

\* m.mu.RLock() before the header loop
AttachRLock(c) ==
  /\ calls[c].pc = "rlock"
  /\ CanRLock(mu)
  /\ mu' = [mu EXCEPT !.readers = @ \cup {c}]
  /\ Set(c, [calls[c] EXCEPT !.pc = "attach"])
  /\ UNCHANGED <<baseURL, heap, headers, clock, runOp, fn>>

\* for k, v := range m.headers { req.Header.Set(k, v) }
Attach(c) ==
  /\ calls[c].pc = "attach"
  /\ Set(c, [calls[c] EXCEPT !.pc = "runlock", !.read = headers,
                             !.req = [@ EXCEPT !.header = heap[headers]]])
  /\ UNCHANGED <<baseURL, heap, headers, mu, clock, runOp, fn>>

\* Faulty variant of AttachRUnlock: the read lock is kept while the request is sent.
AttachRUnlockSkipped(c) ==
  /\ calls[c].pc = "runlock"
  /\ Set(c, [calls[c] EXCEPT !.pc = "do"])
  /\ UNCHANGED <<baseURL, heap, headers, mu, clock, runOp, fn>>

\* m.mu.RUnlock() after the header loop
AttachRUnlock(c) ==
  /\ calls[c].pc = "runlock"
  /\ mu' = [mu EXCEPT !.readers = @ \ {c}]
  /\ Set(c, [calls[c] EXCEPT !.pc = "do"])
  /\ UNCHANGED <<baseURL, heap, headers, clock, runOp, fn>>

\* Faulty variant of StartToken: the shared headers are copied onto the request.
StartTokenWithHeaders(c) ==
  /\ calls[c].pc = "idle"
  /\ \E user \in {"consumer_key", "invalid_key"} :
       Set(c, [calls[c] EXCEPT
                 !.pc = "do", !.op = "GetAccessToken",
                 !.req = [NewRequest(Method("GetAccessToken"),
                                     baseURL \o Path("GetAccessToken"), FALSE, EmptyMap)
                            EXCEPT !.user = user, !.pass = "consumer_secret",
                                   !.header = heap[headers]]])
  /\ UNCHANGED <<baseURL, heap, headers, mu, clock, runOp, fn>>

\* GetAccessToken up to client.Do: the request with its basic-auth credentials.
StartToken(c) ==
  /\ calls[c].pc = "idle"
  /\ \E user \in {"consumer_key", "invalid_key"} :
       Set(c, [calls[c] EXCEPT
                 !.pc = "do", !.op = "GetAccessToken",
                 !.req = [NewRequest(Method("GetAccessToken"),
                                     baseURL \o Path("GetAccessToken"), FALSE, EmptyMap)
                            EXCEPT !.user = user, !.pass = "consumer_secret"]])
  /\ UNCHANGED <<baseURL, heap, headers, mu, clock, runOp, fn>>

\* m.client.Do(req): the request leaves for the server.
Do(c) ==
  /\ calls[c].pc = "do"
  /\ Set(c, [calls[c] EXCEPT !.pc = "await", !.nsent = @ + 1])
  /\ UNCHANGED <<baseURL, heap, headers, mu, clock, runOp, fn>>

\* Faulty variant of TransportFail: a request that failed in flight is sent again.
TransportFailRetries(c) ==
  /\ calls[c].pc \in {"do", "await"}
  /\ Set(c, IF calls[c].pc = "await" /\ calls[c].nsent < 2
               THEN [calls[c] EXCEPT !.pc = "do"]
               ELSE Return(calls[c], FALSE, EmptyMap, "failed to send request"))
  /\ UNCHANGED <<baseURL, heap, headers, mu, clock, runOp, fn>>

\* Faulty variant of TransportFail: the failed call puts the first header map back.
TransportFailRestores(c) ==
  /\ calls[c].pc \in {"do", "await"}
  /\ headers' = 1
  /\ Set(c, Return(calls[c], FALSE, EmptyMap, "failed to send request"))
  /\ UNCHANGED <<baseURL, heap, mu, clock, runOp, fn>>

\* m.client.Do(req) returns an error: the connection fails or the context is
\* cancelled, before the request left or while it is in flight.
TransportFail(c) ==
  /\ calls[c].pc \in {"do", "await"}
  /\ Set(c, Return(calls[c], FALSE, EmptyMap, "failed to send request"))
  /\ UNCHANGED <<baseURL, heap, headers, mu, clock, runOp, fn>>

\* Faulty variant of Recv: a status outside 2xx is returned as an error.
RecvStatusChecked(c, status, body) ==
  /\ calls[c].pc = "await"
  /\ LET d == Decode(body, ResponseFields(calls[c].op))
         answered == [calls[c] EXCEPT !.status = status, !.body = body]
     IN Set(c, IF status < 200 \/ status >= 300
                 THEN Return(answered, FALSE, EmptyMap, "unexpected status")
                 ELSE Return(answered, d.ok, d.val, d.err))
  /\ UNCHANGED <<baseURL, heap, headers, mu, clock, runOp, fn>>

\* The response arrives and is decoded into the operation's response struct.
Recv(c, status, body) ==
  /\ calls[c].pc = "await"
  /\ LET d == Decode(body, ResponseFields(calls[c].op))
     IN Set(c, Return([calls[c] EXCEPT !.status = status, !.body = body],
                      d.ok, d.val, d.err))
  /\ UNCHANGED <<baseURL, heap, headers, mu, clock, runOp, fn>>

Respond(c) == \E status \in Statuses(calls[c].op) : \E body \in Bodies(calls[c].op) : Recv(c, status, body)

\* Headers(): m.mu.RLock()
HeadersRLock(c) ==
  /\ calls[c].pc = "idle"
  /\ CanRLock(mu)
  /\ mu' = [mu EXCEPT !.readers = @ \cup {c}]
  /\ Set(c, [calls[c] EXCEPT !.pc = "hread", !.op = "Headers"])
  /\ UNCHANGED <<baseURL, heap, headers, clock, runOp, fn>>

\* Headers(): the operand of return m.headers is read
HeadersRead(c) ==
  /\ calls[c].pc = "hread"
  /\ Set(c, [calls[c] EXCEPT !.pc = "hrunlock", !.got = headers, !.gotMap = heap[headers]])
  /\ UNCHANGED <<baseURL, heap, headers, mu, clock, runOp, fn>>

\* Headers(): the deferred m.mu.RUnlock(), and the return
HeadersRUnlock(c) ==
  /\ calls[c].pc = "hrunlock"
  /\ mu' = [mu EXCEPT !.readers = @ \ {c}]
  /\ Set(c, [calls[c] EXCEPT !.pc = "done"])
  /\ UNCHANGED <<baseURL, heap, headers, clock, runOp, fn>>

\* BaseURL(): return m.baseURL
BaseURL == baseURL

\* Faulty variant of SetBaseURL: the header map is replaced by the first, empty one.
SetBaseURLResetsHeaders(c, url) ==
  /\ calls[c].pc = "idle"
  /\ \A d \in Calls : calls[d].pc \in {"idle", "done"}
  /\ baseURL' = url
  /\ headers' = 1
  /\ Set(c, [calls[c] EXCEPT !.pc = "done", !.op = "SetBaseURL"])
  /\ UNCHANGED <<heap, mu, clock, runOp, fn>>

\* SetBaseURL(url): by the caller while no request is being built or sent
\* (the field is written without the lock).
SetBaseURL(c, url) ==
  /\ calls[c].pc = "idle"
  /\ \A d \in Calls : calls[d].pc \in {"idle", "done"}
  /\ baseURL' = url
  /\ Set(c, [calls[c] EXCEPT !.pc = "done", !.op = "SetBaseURL"])
  /\ UNCHANGED <<heap, headers, mu, clock, runOp, fn>>

Step(c) ==
  \/ StartBearer(c)
  \/ StartQuery(c)
  \/ SetHeadersLock(c)
  \/ SetHeadersWrite(c)
  \/ SetHeadersUnlock(c)
  \/ Marshal(c)
  \/ AttachRLock(c)
  \/ Attach(c)
  \/ AttachRUnlock(c)
  \/ StartToken(c)
  \/ Do(c)
  \/ TransportFail(c)
  \/ Respond(c)
  \/ HeadersRLock(c)
  \/ HeadersRead(c)
  \/ HeadersRUnlock(c)
  \/ \E url \in BaseURLs : SetBaseURL(c, url)

Next == \E c \in Calls : Step(c)

Spec == Init /\ [][Next]_vars

\* ------------------------------------------- parallel pushes, server at 200
\* N goroutines call STKPush with complete, JSON-encodable payloads; the
\* server answers every request with 200 and the success body.  Every
\* goroutine that can take a step eventually takes one (the Go scheduler runs
\* every runnable goroutine, and the server answers).
InitPush == InitClient /\ runOp = "STKPush" /\ fn = IdleFn

StartComplete(c) == \E tok \in TokenValues : Start(c, "STKPush", Full("STKPush", tok))

RespondOK(c) == Recv(c, 200, SuccessBody(calls[c].op))

StepPush(c) ==
  \/ StartComplete(c)
  \/ SetHeadersLock(c)
  \/ SetHeadersWrite(c)
  \/ SetHeadersUnlock(c)
  \/ Marshal(c)
  \/ AttachRLock(c)
  \/ Attach(c)
  \/ AttachRUnlock(c)
  \/ Do(c)
  \/ RespondOK(c)

NextPush == \E c \in Calls : StepPush(c)

SpecPush == InitPush /\ [][NextPush]_vars /\ \A c \in Calls : WF_vars(StepPush(c))

\* ------------------------------------------------------- serialised calls
\* The caller serialises the calls on the client: a call takes its steps only
\* while no other call is between its start and its return.
Serialised(c) == \A d \in Calls \ {c} : calls[d].pc \in {"idle", "done"}

StepSerial(c) ==
  \/ \E op \in TokenOps : \E payload \in Payloads(op) : Serialised(c) /\ Start(c, op, payload)
  \/ Serialised(c) /\ StartToken(c)
  \/ Serialised(c) /\ HeadersRLock(c)
  \/ \E url \in BaseURLs : Serialised(c) /\ SetBaseURL(c, url)
  \/ SetHeadersLock(c)
  \/ SetHeadersWrite(c)
  \/ SetHeadersUnlock(c)
  \/ Marshal(c)
  \/ AttachRLock(c)
  \/ Attach(c)
  \/ AttachRUnlock(c)
  \/ Do(c)
  \/ TransportFail(c)
  \/ Respond(c)
  \/ HeadersRead(c)
  \/ HeadersRUnlock(c)

NextSerial == \E c \in Calls : StepSerial(c)

SpecSerial == Init /\ [][NextSerial]_vars

\* -------------------------------------------------- utilities on their own
\* CheckKeys applied to any list of at most MaxKeys names and any payload over
\* those names.
KeyNames == {"ShortCode", "Amount", "Msisdn"}
KeyLists == UNION {[1 .. n -> KeyNames] : n \in 0 .. MaxKeys}
KeyPayloads == UNION {[S -> {Str("x"), Num("100")}] : S \in SUBSET KeyNames}

\* EncodePassword applied twice to a shortcode and a passkey, the clock
\* advancing or not between the two calls.
InitUtils ==
  /\ InitClient
  /\ runOp = "STKPush"
  /\ fn \in {[IdleFn EXCEPT !.name = "CheckKeys", !.keys = ks, !.payload = p] :
               ks \in KeyLists, p \in KeyPayloads}
          \cup {[IdleFn EXCEPT !.name = "EncodePassword", !.shortcode = sc, !.passkey = pk] :
                  sc \in ShortCodes, pk \in Passkeys}

ApplyCheckKeys ==
  /\ fn.name = "CheckKeys"
  /\ ~fn.applied
  /\ LET r == CheckKeys(fn.keys, fn.payload)
     IN fn' = [fn EXCEPT !.applied = TRUE, !.ok = r.ok, !.map = r.map, !.err = r.err]
  /\ UNCHANGED <<baseURL, heap, headers, mu, clock, calls, runOp>>

ApplyEncodePassword ==
  /\ fn.name = "EncodePassword"
  /\ Len(fn.outs) < 2
  /\ fn' = [fn EXCEPT !.outs = Append(@, [now |-> clock,
                                          out |-> EncodePassword(Text(fn.shortcode),
                                                                 Text(fn.passkey), clock)])]
  /\ UNCHANGED <<baseURL, heap, headers, mu, clock, calls, runOp>>

\* The wall clock advances by a second.
Tick ==
  /\ clock < MaxClock
  /\ clock' = clock + 1
  /\ UNCHANGED <<baseURL, heap, headers, mu, calls, runOp, fn>>

NextUtils == ApplyCheckKeys \/ ApplyEncodePassword \/ Tick

SpecUtils == InitUtils /\ [][NextUtils]_vars

\* ------------------------------------------------------------------ claims
Min(S) == CHOOSE x \in S : \A y \in S : x <= y
Absent(keys, payload) == {i \in 1 .. Len(keys) : keys[i] \notin DOMAIN payload}
FirstAbsent(keys, payload) == keys[Min(Absent(keys, payload))]

\* C1: a call of one of the ten bearer-token operations whose payload lacks a
\* required key has returned an error naming the (first) key it lacks, no
\* result, and has sent no HTTP request.
MissingKeyRejected ==
  \A c \in Calls :
    LET call == calls[c]
    IN (call.op \in BearerOps /\ Absent(RequiredKeys(call.op), call.payload) # {})
         => /\ call.pc = "done"
            /\ call.err = "missing key: " \o FirstAbsent(RequiredKeys(call.op), call.payload)
            /\ ~call.hasRes
            /\ call.nsent = 0
            /\ call.req = NoReq

\* C1 witness: a call that lacks exactly one key, not the first of its list,
\* was rejected with that key's name while another call's request was sent.
MissingKeyRejectedWitness ==
  \E c, d \in Calls :
    /\ calls[c].op \in BearerOps
    /\ Cardinality(Absent(RequiredKeys(calls[c].op), calls[c].payload)) = 1
    /\ "AccessToken" \in DOMAIN calls[c].payload
    /\ calls[c].pc = "done"
    /\ calls[c].err = "missing key: " \o FirstAbsent(RequiredKeys(calls[c].op), calls[c].payload)
    /\ calls[d].nsent = 1

\* C7: CheckKeys returns either a map whose keys are exactly the required
\* names, each with the payload's value, or, when a required name is absent,
\* no map and an error naming the first absent name in list order.
CheckKeysCorrect ==
  (fn.name = "CheckKeys" /\ fn.applied) =>
    IF Absent(fn.keys, fn.payload) = {}
      THEN /\ fn.ok
           /\ fn.err = ""
           /\ DOMAIN fn.map = Range(fn.keys)
           /\ \A k \in DOMAIN fn.map : fn.map[k] = fn.payload[k]
      ELSE /\ ~fn.ok
           /\ fn.map = EmptyMap
           /\ fn.err = "missing key: " \o FirstAbsent(fn.keys, fn.payload)

\* C7 witness: a payload with a key outside the list was copied without it.
CheckKeysCorrectWitness ==
  /\ fn.name = "CheckKeys"
  /\ fn.applied
  /\ fn.ok
  /\ Len(fn.keys) >= 2
  /\ DOMAIN fn.payload \ Range(fn.keys) # {}
  /\ DOMAIN fn.map = Range(fn.keys)

\* The header loop of call c has run: its request carries what it read.
Attached(c) == calls[c].read > 0
Bearer(token) == "Bearer " \o token
HeaderOf(token) ==
  [k \in {"Content-Type", "Authorization"} |->
     IF k = "Content-Type" THEN "application/json" ELSE Bearer(token)]

\* C2: a request carries the token of the setHeaders that ran last before its
\* header loop; it carries another call's token exactly when that call's
\* setHeaders ran after its own setHeaders and before its own header loop.
ForeignTokenOnlyByInterleaving ==
  \A c \in Calls :
    Attached(c) =>
      /\ calls[c].wrote <= calls[c].read
      /\ \E d \in Calls :
           /\ calls[d].wrote = calls[c].read
           /\ calls[c].req.header = HeaderOf(calls[d].token)
           /\ (d # c => calls[d].wrote > calls[c].wrote)
      /\ (calls[c].read = calls[c].wrote => calls[c].req.header = HeaderOf(calls[c].token))

\* C2 witness: with two calls of different tokens, the request of one was
\* sent with the Authorization header of the other's token.
ForeignTokenSent ==
  \E c, d \in Calls :
    /\ c # d
    /\ calls[c].token # calls[d].token
    /\ calls[c].token # ""
    /\ calls[d].token # ""
    /\ calls[c].nsent = 1
    /\ calls[c].wrote < calls[d].wrote
    /\ calls[d].wrote = calls[c].read
    /\ calls[c].req.header["Authorization"] = Bearer(calls[d].token)

\* No write of m.headers overlaps another write or a read of it.
Writing(c) == calls[c].pc = "setWrite"
Reading(c) == calls[c].pc \in {"attach", "hread"}
NoHeaderRace ==
  \A c, d \in Calls : (c # d /\ Writing(c)) => ~Writing(d) /\ ~Reading(d)
AllPushesSucceeded ==
  \A c \in Calls :
    /\ calls[c].pc = "done"
    /\ calls[c].op = "STKPush"
    /\ calls[c].err = ""
    /\ calls[c].hasRes

\* C3: N parallel STKPush calls with complete payloads against a server that
\* always answers 200 with the success body all return with a nil error, and
\* no write of the shared header map overlaps another write or a read.
ParallelPushesSucceed == []NoHeaderRace /\ <>AllPushesSucceeded

\* C3 witness: all calls returned without error after running interleaved
\* (one call's header loop ran after the other call's setHeaders).
ParallelPushesWitness ==
  /\ AllPushesSucceeded
  /\ \A c \in Calls : calls[c].status = 200 /\ calls[c].nsent = 1
  /\ \E c \in Calls : calls[c].read > calls[c].wrote

NonSuccess(status) == status # 0 /\ (status < 200 \/ status >= 300)

\* C4: an STKPush answered with a non-2xx status and the nested error envelope
\* returns an error carrying the envelope's result code and description, and
\* no result.
STKPushRemoteError ==
  \A c \in Calls :
    (/\ calls[c].pc = "done"
     /\ calls[c].op = "STKPush"
     /\ NonSuccess(calls[c].status)
     /\ calls[c].body = STKErrorBody)
      => /\ ~calls[c].hasRes
         /\ calls[c].err = STKResultDesc \o " (code: " \o STKResultCode \o ")"

\* C5: every request sent by a bearer-token operation carries an Authorization
\* header with a non-empty token.
BearerTokenNonEmpty ==
  \A c \in Calls :
    (calls[c].op \in BearerOps /\ calls[c].nsent > 0)
      => /\ "Authorization" \in DOMAIN calls[c].req.header
         /\ calls[c].req.header["Authorization"] # Bearer("")

\* The maps a reader may see: the empty map of a fresh client, or the two
\* entries written by one call that has run setHeaders.
WrittenMaps == {HeaderOf(calls[d].token) : d \in {e \in Calls : calls[e].wrote > 0}}

\* C6: the shared header map, and every map a reader got from it, is the empty
\* map of the fresh client or exactly the two entries of one earlier call's
\* token; a map returned by Headers() keeps its contents whatever setHeaders
\* does later.
HeadersWhole ==
  /\ heap[headers] \in {EmptyMap} \cup WrittenMaps
  /\ (heap[headers] = EmptyMap <=> headers = 1)
  /\ \A c \in Calls :
       /\ Attached(c) => calls[c].req.header \in WrittenMaps
       /\ calls[c].got > 0 =>
            /\ calls[c].gotMap \in {EmptyMap} \cup WrittenMaps
            /\ heap[calls[c].got] = calls[c].gotMap

\* C6 witness: Headers() returned a map, and a setHeaders ran after that.
HeadersWholeWitness ==
  \E c, d \in Calls :
    /\ calls[c].op = "Headers"
    /\ calls[c].pc = "done"
    /\ calls[d].wrote > calls[c].got
    /\ calls[d].token = "tokB"
    /\ heap[headers] # calls[c].gotMap

\* The keys each operation adds to the cleaned payload.
InjectedKeys(op) ==
  CASE op = "STKPush" -> {"TransactionType", "Timestamp"}
    [] op \in {"SimulateTransaction", "ReverseTransaction", "B2CSend"} -> {"CommandID"}
    [] op \in {"QueryTransaction", "GetBalance"} -> {"CommandID", "IdentifierType"}
    [] op = "RegisterPullAPI" -> {"RequestType"}
    [] OTHER -> {}

\* C8: the body of every request of a bearer-token operation holds exactly the
\* operation's required keys without AccessToken plus the keys the operation
\* injects; the token is in the Authorization header only.
BodyWithoutToken ==
  \A c \in Calls :
    (calls[c].op \in BearerOps /\ calls[c].req # NoReq)
      => /\ calls[c].req.hasBody
         /\ "AccessToken" \notin DOMAIN calls[c].req.body
         /\ DOMAIN calls[c].req.body =
              (Range(RequiredKeys(calls[c].op)) \ {"AccessToken"}) \cup InjectedKeys(calls[c].op)
         /\ (calls[c].nsent > 0 => "Authorization" \in DOMAIN calls[c].req.header)

\* C8 witness: a request was sent for a payload that held AccessToken and keys
\* beyond the required ones.
BodyWithoutTokenWitness ==
  \E c \in Calls :
    /\ calls[c].op = "RegisterPullAPI"
    /\ "Extra" \in DOMAIN calls[c].payload
    /\ calls[c].payload["AccessToken"] = Str("tokA")
    /\ calls[c].nsent = 1
    /\ calls[c].req.header["Authorization"] = Bearer("tokA")

\* The interface table: method and path of each of the twelve operations.
TableOps == BearerOps \cup {"GetAccessToken", "STKPushQuery"}
TableMethod(op) == IF op = "GetAccessToken" THEN "GET" ELSE "POST"
TablePath(op) ==
  CASE op = "GetAccessToken" -> "/oauth/v1/generate?grant_type=client_credentials"
    [] op = "STKPush" -> "/mpesa/stkpush/v1/processrequest"
    [] op = "STKPushQuery" -> "/mpesa/stkpushquery/v1/query"
    [] op = "RegisterURL" -> "/mpesa/c2b/v2/registerurl"
    [] op = "SimulateTransaction" -> "/mpesa/c2b/v1/simulate"
    [] op = "ReverseTransaction" -> "/mpesa/reversal/v1/request"
    [] op = "QueryTransaction" -> "/mpesa/transactionstatus/v1/query"
    [] op = "GetBalance" -> "/mpesa/accountbalance/v1/query"
    [] op = "B2CSend" -> "/mpesa/b2c/v1/paymentrequest"
    [] op = "B2BSend" -> "/mpesa/b2b/v1/paymentrequest"
    [] op = "RegisterPullAPI" -> "/pulltransactions/v1/register"
    [] op = "PullTransactions" -> "/pulltransactions/v1/query"
InFlight(c) == calls[c].pc \notin {"idle", "done"}

TokenExchange401IsError ==
  \A c \in Calls :
    (/\ calls[c].pc = "done"
     /\ calls[c].op = "GetAccessToken"
     /\ calls[c].status = 401
     /\ calls[c].body = AuthErrorBody)
      => calls[c].err # ""

\* The operations of client.go other than STKPush.
StatusBlindOps == (BearerOps \ {"STKPush"}) \cup {"GetAccessToken"}
\* The body is JSON and each of its values that the struct declares fits the
\* field's type.
Storable(body, fields) ==
  /\ body.wf
  /\ \A k \in DOMAIN body.obj \cap DOMAIN fields : Accepts(body.obj[k], fields[k])

SuccessShape(body, fields) ==
  /\ body.wf
  /\ DOMAIN body.obj = DOMAIN fields
  /\ \A k \in DOMAIN fields : body.obj[k].t = "string"

\* C12: answered with 200 and a body of the success shape, GetAccessToken
\* returns the server's access_token and expires_in (a JSON string) and
\* STKPush returns the server's ResponseCode and CheckoutRequestID, both with
\* a nil error.
SuccessDecoded ==
  \A c \in Calls :
    (/\ calls[c].pc = "done"
     /\ calls[c].op \in {"GetAccessToken", "STKPush"}
     /\ calls[c].status = 200
     /\ SuccessShape(calls[c].body, ResponseFields(calls[c].op)))
      => /\ calls[c].err = ""
         /\ calls[c].hasRes
         /\ \A k \in {"access_token", "expires_in", "ResponseCode", "CheckoutRequestID"}
                     \cap DOMAIN ResponseFields(calls[c].op) :
              calls[c].res[k] = calls[c].body.obj[k]

\* C12 witness: the token exchange returned test-token and "3600", and a push
\* returned response code "0" and the checkout request id of the server.
SuccessDecodedWitness ==
  \E c, d \in Calls :
    /\ calls[c].pc = "done" /\ calls[c].op = "GetAccessToken" /\ calls[c].status = 200
    /\ calls[c].err = ""
    /\ calls[c].res["access_token"] = Str("test-token")
    /\ calls[c].res["expires_in"] = Str("3600")
    /\ calls[d].pc = "done" /\ calls[d].op = "STKPush" /\ calls[d].status = 200
    /\ calls[d].err = ""
    /\ calls[d].res["ResponseCode"] = Str("0")
    /\ calls[d].res["CheckoutRequestID"] = Str("ws_CO_191220191020363925")

\* The records of a pull-transactions body, when it holds an array of records
\* whose declared fields have the declared JSON types.
HasRecords(body) ==
  /\ Storable(body, ResponseFields("PullTransactions"))
  /\ "Response" \in DOMAIN body.obj
Records(body) == body.obj["Response"].v

\* C13: PullTransactions returns one Transaction per record of the response,
\* in the order of the response, each equal to its record field for field
\* (a field the record lacks is the zero value).
TransactionsRoundTrip ==
  \A c \in Calls :
    (/\ calls[c].pc = "done"
     /\ calls[c].op = "PullTransactions"
     /\ calls[c].status # 0
     /\ HasRecords(calls[c].body))
      => /\ calls[c].err = ""
         /\ calls[c].hasRes
         /\ Len(calls[c].res["Response"].v) = Len(Records(calls[c].body))
         /\ \A i \in 1 .. Len(Records(calls[c].body)) :
              LET sent == Records(calls[c].body)[i]
                  got == calls[c].res["Response"].v[i]
              IN /\ DOMAIN got = DOMAIN TransactionFields
                 /\ \A k \in DOMAIN got :
                      got[k].v = IF k \in DOMAIN sent THEN sent[k].v
                                 ELSE IF k = "msisdn" THEN "0" ELSE ""

\* C13 witness: a response of two different records came back as two
\* transactions in the same order, with id, date, payer number and amount.
TransactionsRoundTripWitness ==
  \E c \in Calls :
    /\ calls[c].pc = "done"
    /\ calls[c].op = "PullTransactions"
    /\ calls[c].hasRes
    /\ Len(calls[c].res["Response"].v) = 2
    /\ calls[c].res["Response"].v[1]["transactionId"] = Str("yzlyrEsRG1")
    /\ calls[c].res["Response"].v[1]["trxDate"] = Str("2020-08-05T10:13:00Z")
    /\ calls[c].res["Response"].v[2]["transactionId"] = Str("yzlyrEsRG2")
    /\ calls[c].res["Response"].v[2]["msisdn"].v = "254708374149"
    /\ calls[c].res["Response"].v[2]["amount"] = Str("20.50")

ExpectedPassword(passkey) ==
  CASE passkey = "passkey" ->
         <<"MTIzNDU2cGFzc2tleTIwMjUwMTAxMDk1OTU4", "MTIzNDU2cGFzc2tleTIwMjUwMTAxMDk1OTU5",
           "MTIzNDU2cGFzc2tleTIwMjUwMTAxMTAwMDAw", "MTIzNDU2cGFzc2tleTIwMjUwMTAxMTAwMDAx">>
    [] passkey = "" ->
         <<"MTIzNDU2MjAyNTAxMDEwOTU5NTg=", "MTIzNDU2MjAyNTAxMDEwOTU5NTk=",
           "MTIzNDU2MjAyNTAxMDExMDAwMDA=", "MTIzNDU2MjAyNTAxMDExMDAwMDE=">>
    [] passkey = "pk" ->
         <<"MTIzNDU2cGsyMDI1MDEwMTA5NTk1OA==", "MTIzNDU2cGsyMDI1MDEwMTA5NTk1OQ==",
           "MTIzNDU2cGsyMDI1MDEwMTEwMDAwMA==", "MTIzNDU2cGsyMDI1MDEwMTEwMDAwMQ==">>
    [] passkey = "\\xff" ->
         <<"MTIzNDU2/zIwMjUwMTAxMDk1OTU4", "MTIzNDU2/zIwMjUwMTAxMDk1OTU5",
           "MTIzNDU2/zIwMjUwMTAxMTAwMDAw", "MTIzNDU2/zIwMjUwMTAxMTAwMDAx">>

\* C15: EncodePassword returns the base64 encoding of shortcode, passkey and
\* the timestamp of the clock at the call, in that order; two calls with the
\* same arguments at the same clock value return the same string.
PasswordEncoded ==
  fn.name = "EncodePassword" =>
    /\ \A i \in 1 .. Len(fn.outs) :
         fn.outs[i].now \in 0 .. 3 =>
           fn.outs[i].out = ExpectedPassword(fn.passkey)[fn.outs[i].now + 1]
    /\ \A i, j \in 1 .. Len(fn.outs) :
         fn.outs[i].now = fn.outs[j].now <=> fn.outs[i].out = fn.outs[j].out

\* C15 witness: encode("123456", "passkey") was called twice at 09:59:59 and
\* returned the same string both times.
PasswordEncodedWitness ==
  /\ fn.name = "EncodePassword"
  /\ fn.shortcode = "123456"
  /\ fn.passkey = "passkey"
  /\ Len(fn.outs) = 2
  /\ fn.outs[1].now = 1
  /\ fn.outs[2].now = 1
  /\ fn.outs[1].out = "MTIzNDU2cGFzc2tleTIwMjUwMTAxMDk1OTU5"
  /\ fn.outs[2].out = fn.outs[1].out

\* C16: the body of every STKPush request holds the TransactionType
\* CustomerPayBillOnline, a Timestamp read from the clock during the call, and
\* as Password the encoding of the request's shortcode, a passkey and that
\* Timestamp, computed by the client for this request.
PushBodyInjected ==
  \A c \in Calls :
    (calls[c].op = "STKPush" /\ calls[c].req # NoReq) =>
      LET body == calls[c].req.body
      IN /\ body["TransactionType"] = Str("CustomerPayBillOnline")
         /\ \E now \in 0 .. clock :
              /\ body["Timestamp"] = Str(GetTimestamp(now))
              /\ \E pk \in Passkeys :
                   body["Password"] =
                     Str(EncodePassword(Text(body["BusinessShortCode"].v), Text(pk), now))

\* C17: when the calls are serialised, every request of a bearer-token
\* operation carries the two headers of its own call: Authorization is
\* "Bearer " followed by the (string) access token of the call's payload.
OwnTokenWhenSerial ==
  \A c \in Calls :
    (/\ calls[c].op \in BearerOps
     /\ Attached(c)
     /\ calls[c].payload["AccessToken"].t = "string")
      => /\ calls[c].req.header = HeaderOf(calls[c].payload["AccessToken"].v)
         /\ calls[c].read = calls[c].wrote

\* C17 witness: two calls with different tokens ran one after the other and
\* each request was sent with the token of its own call.
OwnTokenWhenSerialWitness ==
  \E c, d \in Calls :
    /\ calls[c].op \in BearerOps /\ calls[d].op \in BearerOps
    /\ calls[c].nsent = 1 /\ calls[d].nsent = 1
    /\ calls[c].payload["AccessToken"] = Str("tokA")
    /\ calls[d].payload["AccessToken"] = Str("tokB")
    /\ calls[c].wrote < calls[d].wrote
    /\ calls[c].req.header["Authorization"] = "Bearer tokA"
    /\ calls[d].req.header["Authorization"] = "Bearer tokB"

\* C18: in a call of a bearer-token operation the required keys are checked
\* before anything else, the call's write of the shared headers comes before
\* its read of them, the read before the send, the send before the decode.
CallOrder ==
  \A c \in Calls :
    calls[c].op \in BearerOps =>
      LET call == calls[c]
          valid == Absent(RequiredKeys(call.op), call.payload) = {}
      IN /\ (call.pc # "done" \/ call.wrote > 0) => valid
         /\ call.pc \in {"setLock", "setWrite"} => call.wrote = 0
         /\ call.pc \in {"setUnlock", "marshal", "rlock", "attach", "runlock", "do", "await"}
              => call.wrote > 0
         /\ call.pc \in {"setLock", "setWrite", "setUnlock", "marshal", "rlock", "attach"}
              => call.read = 0 /\ call.req.header = EmptyMap
         /\ call.pc \in {"runlock", "do", "await"} => call.read > 0
         /\ call.read > 0 => (call.wrote > 0 /\ call.wrote <= call.read)
         /\ call.pc \in {"setLock", "setWrite", "setUnlock", "marshal", "rlock", "attach",
                          "runlock", "do"} => call.nsent = 0
         /\ call.nsent > 0 => (call.nsent = 1 /\ call.read > 0)
         /\ call.status # 0 => (call.nsent = 1 /\ call.pc = "done")
         /\ call.hasRes => call.status # 0

\* C18 witness: a reversal went through every step and returned a result.
CallOrderWitness ==
  \E c \in Calls :
    /\ calls[c].op = "ReverseTransaction"
    /\ calls[c].pc = "done"
    /\ calls[c].wrote > 0
    /\ calls[c].read >= calls[c].wrote
    /\ calls[c].nsent = 1
    /\ calls[c].status = 200
    /\ calls[c].hasRes

HoldsWrite(c) == calls[c].pc \in {"setWrite", "setUnlock"}
HoldsRead(c) == calls[c].pc \in {"attach", "runlock", "hread", "hrunlock"}

\* C19: the write lock is held by at most one call, and by none while a call
\* holds a read lock; read locks are shared; a call that holds the lock does
\* not acquire it again.
LockDiscipline ==
  /\ \A c \in Calls : (mu.writer = c <=> HoldsWrite(c)) /\ (c \in mu.readers <=> HoldsRead(c))
  /\ \A c, d \in Calls : (c # d /\ HoldsWrite(c)) => (~HoldsWrite(d) /\ ~HoldsRead(d))
  /\ \A c \in Calls :
       (HoldsWrite(c) \/ HoldsRead(c)) =>
         /\ ~ENABLED SetHeadersLock(c)
         /\ ~ENABLED AttachRLock(c)
         /\ ~ENABLED HeadersRLock(c)

\* C19 witness: two calls hold the read lock at the same time, one in the
\* header loop of an operation and one in Headers().
LockDisciplineWitness ==
  \E c, d \in Calls :
    /\ c # d
    /\ calls[c].pc = "attach"
    /\ calls[d].pc = "hread"
    /\ mu.readers = {c, d}
    /\ mu.writer = 0

\* C20: once a call has run setHeaders, the shared headers are the two entries
\* of its token unless a later setHeaders replaced them; a call that passed
\* validation and returned, with whatever outcome, has run setHeaders; and
\* nothing but setHeaders changes the shared headers.
HeadersOutliveCall ==
  /\ [](\A c \in Calls :
          /\ calls[c].wrote > 0 =>
               /\ heap[calls[c].wrote] = HeaderOf(calls[c].token)
               /\ \/ headers = calls[c].wrote
                  \/ \E d \in Calls \ {c} : calls[d].wrote > calls[c].wrote /\ headers >= calls[d].wrote
          /\ (/\ calls[c].op \in BearerOps
              /\ calls[c].pc = "done"
              /\ Absent(RequiredKeys(calls[c].op), calls[c].payload) = {})
               => calls[c].wrote > 0)
  /\ [][headers' # headers =>
          \E c \in Calls : calls[c].pc = "setWrite" /\ calls'[c].pc = "setUnlock"]_vars

\* C20 witness: a call whose request failed in transport has returned, and the
\* shared headers still hold its token.
HeadersOutliveCallWitness ==
  \E c \in Calls :
    /\ calls[c].op = "GetBalance"
    /\ calls[c].pc = "done"
    /\ calls[c].err = "failed to send request"
    /\ calls[c].token = "tokB"
    /\ headers = calls[c].wrote
    /\ heap[headers]["Authorization"] = "Bearer tokB"

\* C21: a call sends at most one HTTP request; a call that has an error has
\* returned; a call that has returned takes no further step, and a request
\* that was sent is never sent again.
AtMostOneRequest ==
  /\ [](\A c \in Calls : calls[c].nsent <= 1 /\ (calls[c].err # "" => calls[c].pc = "done"))
  /\ [][\A c \in Calls :
          /\ calls[c].pc = "done" => calls'[c] = calls[c]
          /\ calls[c].nsent = 1 => calls'[c].nsent = 1]_vars

\* C21 witness: one call failed in transport after its request had left, the
\* other failed to decode its response; each had sent one request.
AtMostOneRequestWitness ==
  \E c, d \in Calls :
    /\ calls[c].op = "B2CSend" /\ calls[d].op = "B2CSend"
    /\ calls[c].pc = "done" /\ calls[d].pc = "done"
    /\ calls[c].err = "failed to send request" /\ calls[c].nsent = 1
    /\ calls[d].err = "failed to decode response: invalid JSON" /\ calls[d].nsent = 1

\* C22: a call that has returned has a result exactly when its error is nil;
\* a transport failure, before or after the request left, and a response body
\* that does not fit the response type give an error and no result.
ErrorMeansNoResult ==
  \A c \in Calls :
    (calls[c].pc = "done" /\ calls[c].op \in TableOps) =>
      /\ calls[c].hasRes <=> calls[c].err = ""
      /\ ~calls[c].hasRes => calls[c].res = EmptyMap
      /\ (calls[c].req # NoReq /\ calls[c].status = 0) =>
           (calls[c].err = "failed to send request" /\ ~calls[c].hasRes)
      /\ (calls[c].status # 0 /\ ~Storable(calls[c].body, ResponseFields(calls[c].op))) =>
           (calls[c].err # "" /\ ~calls[c].hasRes)

\* C22 witness: a B2B payment cancelled in flight and one answered with a
\* body of a wrong type both returned an error and no result.
ErrorMeansNoResultWitness ==
  \E c, d \in Calls :
    /\ calls[c].op = "B2BSend" /\ calls[c].pc = "done"
    /\ calls[c].nsent = 1 /\ calls[c].status = 0
    /\ calls[c].err # "" /\ ~calls[c].hasRes
    /\ calls[d].op = "GetAccessToken" /\ calls[d].pc = "done"
    /\ calls[d].body = TokenBody(Num("3600"))
    /\ calls[d].err = "failed to decode response: wrong type" /\ ~calls[d].hasRes

\* The constants of the operations, by operation and key.
FixedFields(op) ==
  CASE op = "SimulateTransaction" -> [CommandID |-> "CustomerPayBillOnline"]
    [] op = "ReverseTransaction" -> [CommandID |-> "TransactionReversal"]
    [] op = "QueryTransaction" -> [CommandID |-> "TransactionStatusQuery", IdentifierType |-> "4"]
    [] op = "GetBalance" -> [CommandID |-> "AccountBalance", IdentifierType |-> "4"]
    [] op = "B2CSend" -> [CommandID |-> "PromotionPayment"]
    [] op = "RegisterPullAPI" -> [RequestType |-> "Pull"]
    [] OTHER -> [k \in {} |-> ""]

\* C23: the body of every request holds the operation's constants whatever
\* the caller's payload holds under those keys; the body of B2BSend holds the
\* CommandID of the caller's payload.
ConstantsFixed ==
  \A c \in Calls :
    (calls[c].op \in BearerOps /\ calls[c].req # NoReq) =>
      /\ \A k \in DOMAIN FixedFields(calls[c].op) :
           /\ k \in DOMAIN calls[c].req.body
           /\ calls[c].req.body[k] = Str(FixedFields(calls[c].op)[k])
      /\ calls[c].op = "B2BSend" => calls[c].req.body["CommandID"] = calls[c].payload["CommandID"]

\* C23 witness: a status query whose caller supplied other values for
\* CommandID and IdentifierType was sent with the constants.
ConstantsFixedWitness ==
  \E c \in Calls :
    /\ calls[c].op = "QueryTransaction"
    /\ calls[c].nsent = 1
    /\ {"CommandID", "IdentifierType"} \subseteq DOMAIN calls[c].payload
    /\ calls[c].payload["CommandID"] = Str("caller")
    /\ calls[c].payload["IdentifierType"] = Str("caller")
    /\ calls[c].req.body["CommandID"] = Str("TransactionStatusQuery")
    /\ calls[c].req.body["IdentifierType"] = Str("4")

Rejected(c) ==
  /\ calls[c].op \in BearerOps
  /\ Absent(RequiredKeys(calls[c].op), calls[c].payload) # {}

\* C24: a call that fails validation changes neither the shared headers nor
\* the lock, and never runs setHeaders: every header map ever stored is the
\* map of a call whose payload passed validation.
RejectedLeavesHeaders ==
  /\ [](\A c \in Calls : Rejected(c) => (calls[c].wrote = 0 /\ calls[c].token = ""))
  /\ [](\A i \in 2 .. Len(heap) :
          \E d \in Calls :
            /\ calls[d].wrote = i
            /\ ~Rejected(d)
            /\ heap[i] = HeaderOf(AssertString(calls[d].payload["AccessToken"])))
  /\ [][\A c \in Calls :
          (calls'[c] # calls[c] /\ Rejected(c)')
            => (headers' = headers /\ heap' = heap /\ mu' = mu)]_vars

\* C24 witness: a call with token tokA was rejected for a missing key while
\* the shared headers hold the token of another call, and a third map was
\* never stored.
RejectedLeavesHeadersWitness ==
  \E c, d \in Calls :
    /\ Rejected(c)
    /\ calls[c].pc = "done"
    /\ calls[c].op = "SimulateTransaction"
    /\ "AccessToken" \in DOMAIN calls[c].payload
    /\ calls[c].payload["AccessToken"] = Str("tokA")
    /\ calls[d].wrote = headers
    /\ calls[d].nsent = 1
    /\ heap[headers] = HeaderOf("tokB")
    /\ Len(heap) = 2

\* C25: the request of GetAccessToken carries the basic-auth credentials of
\* its arguments and nothing of the shared header map; the call never holds
\* the lock, and none of its steps changes the header map or the lock.
TokenExchangeApart ==
  /\ [](\A c \in Calls :
          calls[c].op = "GetAccessToken" =>
            /\ calls[c].req.header = EmptyMap
            /\ calls[c].req.user \in {"consumer_key", "invalid_key"}
            /\ calls[c].req.pass = "consumer_secret"
            /\ calls[c].wrote = 0 /\ calls[c].read = 0
            /\ mu.writer # c /\ c \notin mu.readers)
  /\ [][\A c \in Calls :
          (calls'[c] # calls[c] /\ calls'[c].op = "GetAccessToken")
            => (headers' = headers /\ heap' = heap /\ mu' = mu)]_vars

\* C25 witness: a token exchange was sent without any header of the shared
\* map while the map held the bearer token of another call.
TokenExchangeApartWitness ==
  \E c, d \in Calls :
    /\ calls[c].op = "GetAccessToken"
    /\ calls[c].nsent = 1
    /\ calls[c].req.user = "consumer_key"
    /\ calls[c].req.header = EmptyMap
    /\ calls[d].wrote = headers
    /\ calls[d].pc \in {"marshal", "rlock", "attach"}
    /\ heap[headers] = HeaderOf("tokB")

HolderCanStep(d) ==
  \/ ENABLED SetHeadersWrite(d)
  \/ ENABLED SetHeadersUnlock(d)
  \/ ENABLED Attach(d)
  \/ ENABLED AttachRUnlock(d)
  \/ ENABLED HeadersRead(d)
  \/ ENABLED HeadersRUnlock(d)

\* C26: a call holds the lock neither while it marshals nor while its request
\* is being sent or awaits the answer; while every other call is sending,
\* waiting for the server or outside the lock, a call gets the lock it asks
\* for; and whenever a call waits for the lock, a holder can take a step.
NoLockInFlight ==
  /\ \A c \in Calls :
       calls[c].pc \in {"idle", "setLock", "marshal", "rlock", "do", "await", "done"}
         => (mu.writer # c /\ c \notin mu.readers)
  /\ \A c \in Calls :
       (\A d \in Calls \ {c} : calls[d].pc \in {"idle", "marshal", "do", "await", "done"}) =>
         /\ calls[c].pc = "setLock" => ENABLED SetHeadersLock(c)
         /\ calls[c].pc = "rlock" => ENABLED AttachRLock(c)
         /\ calls[c].pc = "idle" => ENABLED HeadersRLock(c)
  /\ \A c \in Calls :
       calls[c].pc \in {"setLock", "rlock"} =>
         \/ ENABLED SetHeadersLock(c)
         \/ ENABLED AttachRLock(c)
         \/ \E d \in Calls \ {c} : (HoldsWrite(d) \/ HoldsRead(d)) /\ HolderCanStep(d)

\* C26 witness: while the request of one call awaits its answer, another call
\* holds the write lock in setHeaders.
NoLockInFlightWitness ==
  \E c, d \in Calls :
    /\ calls[c].op = "RegisterPullAPI"
    /\ calls[c].pc = "await"
    /\ calls[d].pc = "setWrite"
    /\ mu.writer = d
    /\ mu.readers = {}

\* C27: an STKPush whose Password the caller produced with EncodePassword is
\* sent with the Timestamp that is encoded in that Password.
PasswordTimestampAgree ==
  \A c \in Calls :
    (calls[c].op = "STKPush" /\ calls[c].req # NoReq) =>
      \A t \in 0 .. MaxClock :
        (\E sc \in ShortCodes : \E pk \in Passkeys :
           calls[c].payload["Password"] = Str(EncodePassword(Text(sc), Text(pk), t)))
          => calls[c].req.body["Timestamp"] = Str(GetTimestamp(t))

====
